---- MODULE Spec2Model ----
(***************************************************************************)
(* Model of ohmy.py: MySQLDatabase / MySQLTable / MySQLRecord.             *)
(*                                                                         *)
(* Values are tagged tuples so that Python's value equality between        *)
(* values of different types is defined: None, IntV(n), StrV(chars).       *)
(* A Python string is a sequence of one-character strings, so the quoting  *)
(* and escaping the formatters perform are computed, not assumed.          *)
(* A Python dict is a function whose DOMAIN is its key set.                *)
(***************************************************************************)
EXTENDS Integers, Sequences, FiniteSets, TLC

\* ------------------------------------------------------------------ bounds
\* Longest MySQLRecordSet the caller grows by hand.
MaxItems == 3

\* Largest key the driver hands out (AUTO_INCREMENT) or a caller writes.
MaxKey == 2

\* ------------------------------------------------------------------ values
None == <<"none">>
IntV(n) == <<"int", n>>
StrV(s) == <<"str", s>>

IsStr(v) == v[1] = "str"
IsInt(v) == v[1] = "int"

NULLText == StrV(<<"N", "U", "L", "L">>)

EmptyDict == [k \in {} |-> None]

\* d[k] = v on a dict
Put(d, k, v) == [y \in (DOMAIN d) \cup {k} |-> IF y = k THEN v ELSE d[y]]

\* value.replace("'", "\\'")
RECURSIVE EscapeQuotes(_)
EscapeQuotes(s) ==
    IF s = <<>> THEN <<>>
    ELSE IF Head(s) = "'" THEN <<"\\", "'">> \o EscapeQuotes(Tail(s))
    ELSE <<Head(s)>> \o EscapeQuotes(Tail(s))

\* ------------------------------------------------- MySQLType enumerations
INTERNAL == "INTERNAL"
MYSQL == "MYSQL"
EXTERNAL == "EXTERNAL"
Representations == {INTERNAL, MYSQL, EXTERNAL}

Field_INTEGER == "INTEGER"
Field_FLOAT == "FLOAT"
Field_DATETIME == "DATETIME"
Field_STRING == "STRING"
Field_BINARY == "BINARY"
UnknownType == "0"

\* ---------------------------------------------------------- return values
Ok(v) == [ok |-> TRUE, err |-> "", val |-> v]
Raise(e) == [ok |-> FALSE, err |-> e, val |-> None]

\* ------------------------------------------------ the table being described
\* What DESCRIBE returns for the table: (Field, Type, Null, Key, Default, Extra).
\* The declared type is held as its leading keyword, which is all the
\* regular expressions of _getInternalFieldType look at.
DescribeRows ==
    << <<"Id", "int", "NO", "PRI", None, "auto_increment">>,
       <<"Name", "varchar", "YES", "", StrV(<<"a">>), "">> >>

\* MySQLTable._getInternalFieldType: ordered rules, first match wins
_getInternalFieldType(ftype) ==
    IF ftype = "binary" THEN Field_BINARY
    ELSE IF ftype = "datetime" THEN Field_DATETIME
    ELSE IF ftype \in {"smallint", "int", "tinyint", "mediumint", "bigint"} THEN Field_INTEGER
    ELSE IF ftype \in {"number", "decimal", "float", "double"} THEN Field_FLOAT
    ELSE IF ftype \in {"text", "char", "blob", "varchar", "string"} THEN Field_STRING
    ELSE UnknownType

\* The for-loop of MySQLTable.__init__ over the rows of DESCRIBE.
RECURSIVE Introspect(_, _)
Introspect(rows, t) ==
    IF rows = <<>> THEN t
    ELSE LET row == Head(rows)
             t1 == [PKEY |-> IF row[4] = "PRI" THEN StrV(row[1]) ELSE t.PKEY,
                    FIELDS |-> Append(t.FIELDS, row[1]),
                    META |-> Put(t.META, row[1],
                                 [Type |-> row[2],
                                  DataType |-> _getInternalFieldType(row[2]),
                                  Null |-> row[3],
                                  Key |-> row[4],
                                  Default |-> row[5],
                                  Extra |-> row[6]])]
         IN Introspect(Tail(rows), t1)

\* A table object before DESCRIBE has been read (lines 270-274).
NoTable == [PKEY |-> None, FIELDS |-> <<>>, META |-> EmptyDict]

SeqToSet(s) == {s[i] : i \in 1..Len(s)}

\* ------------------------------------------------------------- MySQLRecord
\* The primary key name as a plain name ("" when the table has none).
PKeyName(t) == IF t.PKEY = None THEN "" ELSE t.PKEY[2]

\* 'PRIMARY' alias resolution (lines 117, 126, 174, 193)
Resolve(t, name) == IF name = "PRIMARY" THEN PKeyName(t) ELSE name

InFields(t, name) == name \in SeqToSet(t.FIELDS)

\* MySQLRecord._mysqlFieldFormatter
_mysqlFieldFormatter(t, field, value) ==
    LET ftype == t.META[field].DataType IN
    IF value = None THEN Ok(NULLText)
    ELSE IF ftype = Field_STRING
         THEN IF IsStr(value)
              THEN Ok(StrV(<<"'">> \o EscapeQuotes(value[2]) \o <<"'">>))
              ELSE Raise("AttributeError")
    ELSE IF ftype = Field_INTEGER
         THEN IF IsInt(value) THEN Ok(value) ELSE Raise("ValueError")
    ELSE Raise("TypeError")

\* MySQLRecord._externalFieldFormatter
_externalFieldFormatter(t, field, value) ==
    LET ftype == t.META[field].DataType IN
    IF value = None THEN Ok(NULLText)
    ELSE IF ftype = Field_STRING THEN Ok(value)
    ELSE IF ftype = Field_INTEGER
         THEN IF IsInt(value) THEN Ok(value) ELSE Raise("ValueError")
    ELSE Raise("TypeError")

\* MySQLRecord.getField(field, datarep, value)
getField(t, rec, field0, datarep, value) ==
    LET field == Resolve(t, field0) IN
    IF datarep \notin Representations THEN Raise("MySQLException")
    ELSE IF InFields(t, field)
         THEN LET val == IF value # None THEN value ELSE rec.DATA[field] IN
              IF datarep = MYSQL THEN _mysqlFieldFormatter(t, field, val)
              ELSE IF datarep = EXTERNAL THEN _externalFieldFormatter(t, field, val)
              ELSE Ok(val)
    ELSE Raise("MySQLException")

\* The write-time coercions of setField (lines 202-210).  Only Field_DATETIME and
\* Field_BINARY fields coerce; a parsed or converted value is a value of its own.
Coerce(ftype, value) ==
    IF ftype = Field_DATETIME /\ value # None /\ IsStr(value) THEN <<"datetime", value[2]>>
    ELSE IF ftype = Field_BINARY /\ value # None /\ IsStr(value) THEN <<"bytes", value[2]>>
    ELSE IF ftype = Field_BINARY /\ value # None /\ IsInt(value) THEN <<"bin", value[2]>>
    ELSE value

\* setField taking the branch of line 194 on a write: the baseline becomes the
\* very dict that holds the current values
setField_aliasBaseline(t, rec, field0, value) ==
    LET field == Resolve(t, field0) IN
    IF field \notin DOMAIN t.META THEN [ok |-> FALSE, err |-> "KeyError", rec |-> rec]
    ELSE [ok |-> TRUE, err |-> "",
          rec |-> [rec EXCEPT !.DATA = Put(rec.DATA, field, value),
                              !.ODATA = Put(rec.DATA, field, value)]]

\* MySQLRecord.setField(field, value): the record afterwards, or the error.
\* '__ODATA' is always present after __init__ (line 90), so the branch of
\* line 194 is never taken; the META lookup of line 200 fails with KeyError
\* for an undeclared name before the test of line 212 is reached.
setField(t, rec, field0, value) ==
    LET field == Resolve(t, field0) IN
    IF field \notin DOMAIN t.META THEN [ok |-> FALSE, err |-> "KeyError", rec |-> rec]
    ELSE LET v == Coerce(t.META[field].DataType, value) IN
         IF InFields(t, field)
         THEN [ok |-> TRUE, err |-> "", rec |-> [rec EXCEPT !.DATA = Put(rec.DATA, field, v)]]
         ELSE [ok |-> FALSE, err |-> "AttributeException", rec |-> rec]

\* __setattr__ storing an undeclared name among the field values
setAttr_intoData(t, rec, name0, val) ==
    LET name == Resolve(t, name0) IN
    IF InFields(t, name) THEN setField(t, rec, name, val)
    ELSE [ok |-> TRUE, err |-> "", rec |-> [rec EXCEPT !.DATA = Put(rec.DATA, name, val)]]

\* MySQLRecord.__setattr__(name, val).  object.__setattr__ puts an undeclared
\* name in the instance dictionary under that name: '__DATA', '__ODATA' and
\* '__INDEX' are left as they are and the call returns normally.
setAttr(t, rec, name0, val) ==
    LET name == Resolve(t, name0) IN
    IF InFields(t, name) THEN setField(t, rec, name, val)
    ELSE [ok |-> TRUE, err |-> "", rec |-> rec]

\* MySQLRecord.__sync
RECURSIVE SyncLoop(_, _)
SyncLoop(fields, rec) ==
    IF fields = <<>> THEN rec
    ELSE SyncLoop(Tail(fields),
                  [rec EXCEPT !.ODATA = Put(rec.ODATA, Head(fields), rec.DATA[Head(fields)])])

sync(t, rec) == SyncLoop(t.FIELDS, rec)

\* lines 98-99: every field starts at its default
RECURSIVE DefaultsLoop(_, _, _)
DefaultsLoop(t, fields, rec) ==
    IF fields = <<>> THEN rec
    ELSE DefaultsLoop(t, Tail(fields),
                      [rec EXCEPT !.DATA = Put(rec.DATA, Head(fields), t.META[Head(fields)].Default)])

\* lines 101-103: overlay the seed, declared names only
RECURSIVE SeedLoop(_, _, _, _)
SeedLoop(t, keys, data, rec) ==
    IF keys = {} THEN rec
    ELSE LET i == CHOOSE k \in keys : TRUE
             r1 == IF InFields(t, i) THEN setField(t, rec, i, data[i]).rec ELSE rec
         IN SeedLoop(t, keys \ {i}, data, r1)

\* __init__ capturing the baseline before the seed is overlaid
NewRecord_syncFirst(t, data, index) ==
    LET r0 == [DATA |-> EmptyDict, ODATA |-> EmptyDict, INDEX |-> index]
        r1 == sync(t, DefaultsLoop(t, t.FIELDS, r0))
    IN SeedLoop(t, DOMAIN data, data, r1)

\* MySQLRecord.__init__(table, data, index)
NewRecord(t, data, index) ==
    LET r0 == [DATA |-> EmptyDict, ODATA |-> EmptyDict, INDEX |-> index]
        r1 == DefaultsLoop(t, t.FIELDS, r0)
        r2 == SeedLoop(t, DOMAIN data, data, r1)
    IN sync(t, r2)

\* isModified returning after it has compared the first field
isModifiedLoop_firstOnly(fields, rec) ==
    IF fields = <<>> THEN FALSE
    ELSE rec.DATA[Head(fields)] # rec.ODATA[Head(fields)]

\* MySQLRecord.isModified
RECURSIVE isModifiedLoop(_, _)
isModifiedLoop(fields, rec) ==
    IF fields = <<>> THEN FALSE
    ELSE IF rec.DATA[Head(fields)] # rec.ODATA[Head(fields)] THEN TRUE
    ELSE isModifiedLoop(Tail(fields), rec)

isModified(t, rec) == isModifiedLoop(t.FIELDS, rec)

\* MySQLRecord.changes(datarep): the dict, or the first error of getField
RECURSIVE changesLoop(_, _, _, _, _)
RECURSIVE changesPut(_, _, _, _, _, _)
changesLoop(t, fields, rec, datarep, res) ==
    IF fields = <<>> THEN Ok(res)
    ELSE IF rec.DATA[Head(fields)] # rec.ODATA[Head(fields)]
         THEN changesPut(t, fields, rec, datarep, res,
                         getField(t, rec, Head(fields), datarep, None))
         ELSE changesLoop(t, Tail(fields), rec, datarep, res)

\* line 236: res[i] = self.getField(i, datarep), g being what getField did
changesPut(t, fields, rec, datarep, res, g) ==
    IF g.ok THEN changesLoop(t, Tail(fields), rec, datarep, Put(res, Head(fields), g.val))
    ELSE g

changes(t, rec, datarep) == changesLoop(t, t.FIELDS, rec, datarep, EmptyDict)

\* MySQLRecord.data(datarep)
RECURSIVE dataLoop(_, _, _, _, _)
RECURSIVE dataPut(_, _, _, _, _, _)
dataLoop(t, fields, rec, datarep, res) ==
    IF fields = <<>> THEN Ok(res)
    ELSE dataPut(t, fields, rec, datarep, res, getField(t, rec, Head(fields), datarep, None))

\* line 245: res[i] = self.getField(i, datarep), g being what getField did
dataPut(t, fields, rec, datarep, res, g) ==
    IF g.ok THEN dataLoop(t, Tail(fields), rec, datarep, Put(res, Head(fields), g.val))
    ELSE g

data(t, rec, datarep) == dataLoop(t, t.FIELDS, rec, datarep, EmptyDict)

\* A record object before __init__ has populated it (lines 89-91); the
\* caller's variable holds this while it refers to no record.
NoRec == [DATA |-> EmptyDict, ODATA |-> EmptyDict, INDEX |-> None]

\* ---------------------------------------------------------- MySQLRecordSet
\* A value that is not a MySQLRecord, as an element of a list.
Other(v) == [other |-> v]

\* isinstance(value, MySQLRecord)
isRecord(value) == "DATA" \in DOMAIN value

\* MySQLRecordSet.__setitem__(key, value), key counted from 1.  The raise of
\* line 263 names `item`, which nothing defines: building its argument
\* raises NameError, so the assignment is refused all the same.
setitem(rs, key, value) ==
    IF ~isRecord(value) THEN [ok |-> FALSE, err |-> "NameError", set |-> rs]
    ELSE IF key \notin 1..Len(rs) THEN [ok |-> FALSE, err |-> "IndexError", set |-> rs]
    ELSE [ok |-> TRUE, err |-> "", set |-> [rs EXCEPT ![key] = value]]

\* list.append, list.insert (index counted from 0, as many elements before
\* the new one) and list.extend, none of which MySQLRecordSet overrides
append(rs, value) == [ok |-> TRUE, err |-> "", set |-> Append(rs, value)]

listInsert(rs, index, value) ==
    [ok |-> TRUE, err |-> "",
     set |-> SubSeq(rs, 1, index) \o <<value>> \o SubSeq(rs, index + 1, Len(rs))]

extend(rs, values) == [ok |-> TRUE, err |-> "", set |-> rs \o values]

\* --------------------------------------------------------------- statements
\* A statement is held by its parts rather than as rendered text: its kind,
\* its column list (SELECT), the field -> literal mapping it carries (INSERT
\* values, UPDATE SET list), its WHERE conditions, each a
\* <<field, literal>> equality, and its LIMIT fragment (<<>>: none).
Statement(kind, fields, vals, where) ==
    [kind |-> kind, fields |-> fields, vals |-> vals, where |-> where, limit |-> <<>>]
NoStmt == Statement("", <<>>, EmptyDict, <<>>)

\* One driver call of the program, as the log keeps it: ev is "check" (entry
\* to checkConnection), "connect", "cursor", "probe", "teardown" or "exec";
\* an "exec" carries the statement and what its cursor reports.
Event(ev, stmt, res) ==
    [ev |-> ev, stmt |-> stmt, res |-> res, cur |-> [rowcount |-> 0, lastrowid |-> IntV(0)]]
Executed(stmt, x) ==
    [ev |-> "exec", stmt |-> stmt, res |-> IF x.ok THEN "ok" ELSE x.err,
     cur |-> [rowcount |-> x.cur.rowcount, lastrowid |-> x.cur.lastrowid]]
Log(w, e) == [w EXCEPT !.log = Append(w.log, e)]

Done(w) == [ok |-> TRUE, err |-> "", w |-> w]
Fail(w, e) == [ok |-> FALSE, err |-> e, w |-> w]

\* ---------------------------------------------------- the driver (MySQLdb)
\* What the server and driver may do to one statement of the program:
\*   conn0   outcome of MySQLdb.connect when no connection is held
\*   probe   outcome of the 'SELECT 1' probe
\*   reconn  outcome of MySQLdb.connect after a 2006 probe failure
\*   stmt    outcome of the statement itself
\*   rc      the affected-row count reported for an INSERT
\* Outcomes that the earlier ones make unobservable are left at "ok" / 1.
Faults ==
    { f \in [conn0 : {"ok", "fail"}, probe : {"ok", "gone", "other"},
             reconn : {"ok", "fail"}, stmt : {"ok", "gone", "other"}, rc : 0..2] :
        /\ (f.conn0 = "fail" => f.probe = "ok")
        /\ (f.probe # "gone" => f.reconn = "ok")
        /\ (f.probe = "other" \/ f.reconn = "fail" \/ f.conn0 = "fail" => f.stmt = "ok")
        /\ (f.stmt # "ok" \/ f.probe = "other" \/ f.reconn = "fail" \/ f.conn0 = "fail"
              => f.rc = 1) }

RECURSIVE UnescapeQuotes(_)
UnescapeQuotes(s) ==
    IF s = <<>> THEN <<>>
    ELSE IF Len(s) >= 2 /\ s[1] = "\\" /\ s[2] = "'"
         THEN <<"'">> \o UnescapeQuotes(SubSeq(s, 3, Len(s)))
    ELSE <<Head(s)>> \o UnescapeQuotes(Tail(s))

\* The value the server reads from a literal of the statement text.
SqlLiteral(lit) ==
    IF lit = NULLText THEN None
    ELSE IF IsStr(lit) /\ Len(lit[2]) >= 2 /\ Head(lit[2]) = "'"
         THEN StrV(UnescapeQuotes(SubSeq(lit[2], 2, Len(lit[2]) - 1)))
    ELSE lit

\* A row satisfies `field` = literal; a comparison with NULL is never true.
Matches(row, where) ==
    \A i \in 1..Len(where) :
        /\ where[i][1] \in DOMAIN row
        /\ SqlLiteral(where[i][2]) # None
        /\ row[where[i][1]] = SqlLiteral(where[i][2])

\* Rows in primary-key order, each as the tuple of the selected columns.
RECURSIVE RowsInOrder(_, _)
RECURSIVE RowsAfter(_, _, _)
RowsInOrder(rs, fields) ==
    IF rs = {} THEN <<>>
    ELSE RowsAfter(rs, fields, CHOOSE x \in rs : \A y \in rs : x["Id"][2] <= y["Id"][2])

RowsAfter(rs, fields, r) ==
    <<[i \in 1..Len(fields) |-> r[fields[i]]]>> \o RowsInOrder(rs \ {r}, fields)

Cursor(rows, rowcount, lastrowid) == [rows |-> rows, rowcount |-> rowcount, lastrowid |-> lastrowid]
NoCursor == Cursor(<<>>, 0, IntV(0))

DriverOk(w, cur) == [ok |-> TRUE, err |-> "", w |-> w, cur |-> cur]
DriverError(w, e) == [ok |-> FALSE, err |-> e, w |-> w, cur |-> NoCursor]

\* The key an INSERT stores: the explicit one, or the next AUTO_INCREMENT.
InsertKey(w, stmt) ==
    IF SqlLiteral(stmt.vals["Id"]) = None THEN IntV(w.nextId) ELSE SqlLiteral(stmt.vals["Id"])

Max(a, b) == IF a >= b THEN a ELSE b

\* SELECT: the rows that satisfy the conditions
Min(a, b) == IF a <= b THEN a ELSE b

\* LIMIT n keeps the first n rows, LIMIT o, c the c rows after the first o
Limited(rs, frag) ==
    IF frag = <<>> THEN rs
    ELSE IF Len(frag) = 2 THEN SubSeq(rs, 1, Min(frag[2], Len(rs)))
    ELSE SubSeq(rs, frag[2] + 1, Min(frag[2] + frag[3], Len(rs)))

DriverSelected(w, rs) == DriverOk(w, Cursor(rs, Len(rs), IntV(0)))

DriverSelect(w, stmt, rs) ==
    DriverSelected(w, Limited(RowsInOrder(rs, stmt.fields), stmt.limit))

\* INSERT of one row under key k, reporting row count rc: a duplicate key is
\* refused; a count of zero stores nothing.
DriverInsert(w, stmt, k, rc) ==
    IF \E r \in w.rows : r["Id"] = k THEN DriverError(w, "IntegrityError")
    ELSE IF rc = 0 THEN DriverOk(w, Cursor(<<>>, 0, IntV(0)))
    ELSE DriverOk([w EXCEPT
                     !.rows = w.rows \cup
                         {[c \in DOMAIN stmt.vals |->
                             IF c = "Id" THEN k ELSE SqlLiteral(stmt.vals[c])]},
                     !.nextId = Max(w.nextId, k[2] + 1)],
                  Cursor(<<>>, rc, k))

\* UPDATE: an empty SET list is a syntax error; a NULL or duplicate key is
\* refused; the count is that of the rows the conditions select.
DriverUpdate(w, stmt, hit, after) ==
    IF DOMAIN stmt.vals = {} THEN DriverError(w, "ProgrammingError")
    ELSE IF \/ \E r \in after : r["Id"] = None
            \/ Cardinality({r["Id"] : r \in after}) # Cardinality(w.rows)
    THEN DriverError(w, "IntegrityError")
    ELSE DriverOk([w EXCEPT !.rows = after], Cursor(<<>>, Cardinality(hit), IntV(0)))

\* the row after SET
Updated(r, stmt) ==
    [c \in DOMAIN r |-> IF c \in DOMAIN stmt.vals THEN SqlLiteral(stmt.vals[c]) ELSE r[c]]

UpdatedRows(w, stmt, hit) == (w.rows \ hit) \cup {Updated(r, stmt) : r \in hit}

DriverUpdateOf(w, stmt, hit) == DriverUpdate(w, stmt, hit, UpdatedRows(w, stmt, hit))

\* cursor.execute(statement) in the server: the effect on the stored rows and
\* what the cursor then reports.
DriverExecute(w, stmt, f) ==
    IF f.stmt = "gone" THEN DriverError(w, "ServerGone")
    ELSE IF f.stmt = "other" THEN DriverError(w, "DriverError")
    ELSE IF stmt.kind = "DESCRIBE"
         THEN DriverOk(w, Cursor(w.described, Len(w.described), IntV(0)))
    ELSE IF stmt.kind = "SELECT"
         THEN DriverSelect(w, stmt, {r \in w.rows : Matches(r, stmt.where)})
    ELSE IF stmt.kind = "INSERT"
         THEN DriverInsert(w, stmt, InsertKey(w, stmt), f.rc)
    ELSE IF stmt.kind = "UPDATE"
         THEN DriverUpdateOf(w, stmt, {r \in w.rows : Matches(r, stmt.where)})
    ELSE DriverError(w, "ProgrammingError")

\* ----------------------------------------------------------- MySQLDatabase
\* MySQLDatabase.connect: __conn is assigned only if MySQLdb.connect returns.
connect(w, outcome) ==
    IF outcome = "ok"
    THEN Done(Log([w EXCEPT !.conn = "up"], Event("connect", NoStmt, "ok")))
    ELSE Fail(Log(w, Event("connect", NoStmt, "fail")), "ConnectFailed")

\* MySQLDatabase.connection
connection(w, f) == IF w.conn = "none" THEN connect(w, f.conn0) ELSE Done(w)

\* the except clause re-raising the 2006 failure instead of reconnecting
ProbeResult_noReconnect(w, f) ==
    IF f.probe = "ok" THEN Done([w EXCEPT !.status = "True"])
    ELSE IF f.probe = "gone" THEN Fail(w, "ServerGone")
    ELSE Fail(w, "DriverError")

\* lines 530-539: what follows the probe, w being the state once it was sent
ProbeResult(w, f) ==
    IF f.probe = "ok" THEN Done([w EXCEPT !.status = "True"])
    ELSE IF f.probe = "gone"
    THEN connect(Log([w EXCEPT !.status = "False", !.conn = "none"],
                     Event("teardown", NoStmt, "ok")), f.reconn)
    ELSE Fail(w, "DriverError")

\* lines 529-531: cur = self.connection().cursor(); cur.execute('SELECT 1'),
\* c being what connection() did
Probe(c, f) ==
    IF ~c.ok THEN c
    ELSE ProbeResult(Log(Log(c.w, Event("cursor", NoStmt, "ok")),
                         Event("probe", NoStmt, f.probe)), f)

\* line 529, c being what line 528 did
CheckConnected(c, f) == IF ~c.ok THEN c ELSE Probe(connection(c.w, f), f)

\* line 528: if self.__conn == None: self.connect()
ConnectIfNone(w, f) == IF w.conn = "none" THEN connect(w, f.conn0) ELSE Done(w)

\* MySQLDatabase.checkConnection
checkConnection(w, f) ==
    CheckConnected(ConnectIfNone(Log(w, Event("check", NoStmt, "ok")), f), f)

\* -------------------------------------------------------------- MySQLTable
\* lines 282-294, x being what cur.execute('DESCRIBE ...') did
TableInitResult(stmt, x) ==
    IF ~x.ok
    THEN [ok |-> FALSE, err |-> x.err, w |-> Log(x.w, Executed(stmt, x)), t |-> NoTable]
    ELSE [ok |-> TRUE, err |-> "", w |-> Log(x.w, Executed(stmt, x)),
          t |-> Introspect(x.cur.rows, NoTable)]

\* lines 280-281, c being what connection() did
TableInitCursor(c, stmt, f) ==
    IF ~c.ok THEN [ok |-> FALSE, err |-> c.err, w |-> c.w, t |-> NoTable]
    ELSE TableInitResult(stmt, DriverExecute(Log(c.w, Event("cursor", NoStmt, "ok")), stmt, f))

\* line 280, c being what checkConnection did
TableInitChecked(c, stmt, f) ==
    IF ~c.ok THEN [ok |-> FALSE, err |-> c.err, w |-> c.w, t |-> NoTable]
    ELSE TableInitCursor(connection(c.w, f), stmt, f)

\* MySQLTable.__init__ after the None test: probe, cursor, DESCRIBE, loop.
TableInit(w, f) ==
    TableInitChecked(checkConnection(w, f), Statement("DESCRIBE", <<>>, EmptyDict, <<>>), f)

\* line 557, c being what line 556 did
TableConnected(c, f) ==
    IF ~c.ok THEN [ok |-> FALSE, err |-> c.err, w |-> c.w, t |-> NoTable]
    ELSE TableInit(c.w, f)

\* MySQLDatabase.table
DatabaseTable(w, f) == TableConnected(ConnectIfNone(w, f), f)

\* _execute catching the statement's error and handing back an empty cursor
ExecuteResult_swallow(stmt, insert, x) ==
    [ok |-> TRUE, err |-> "",
     w |-> IF insert THEN [Log(x.w, Executed(stmt, x)) EXCEPT !.INDEX = x.cur.lastrowid]
           ELSE Log(x.w, Executed(stmt, x)),
     cur |-> x.cur]

\* lines 406-413, x being what cur.execute(statement) did
ExecuteResult(stmt, insert, x) ==
    IF ~x.ok THEN [ok |-> FALSE, err |-> x.err, w |-> Log(x.w, Executed(stmt, x)), cur |-> NoCursor]
    ELSE [ok |-> TRUE, err |-> "",
          w |-> IF insert THEN [Log(x.w, Executed(stmt, x)) EXCEPT !.INDEX = x.cur.lastrowid]
                ELSE Log(x.w, Executed(stmt, x)),
          cur |-> x.cur]

\* lines 404-406, c being what connection() did
ExecuteCursor(c, stmt, insert, f) ==
    IF ~c.ok THEN [ok |-> FALSE, err |-> c.err, w |-> c.w, cur |-> NoCursor]
    ELSE ExecuteResult(stmt, insert,
                       DriverExecute(Log(c.w, Event("cursor", NoStmt, "ok")), stmt, f))

\* _execute going on to its statement whatever checkConnection raised
ExecuteChecked_sendAnyway(c, stmt, insert, f) ==
    ExecuteCursor(connection(c.w, f), stmt, insert, f)

\* line 404, c being what checkConnection did
ExecuteChecked(c, stmt, insert, f) ==
    IF ~c.ok THEN [ok |-> FALSE, err |-> c.err, w |-> c.w, cur |-> NoCursor]
    ELSE ExecuteCursor(connection(c.w, f), stmt, insert, f)

\* _execute skipping the probe once the connection has been seen alive
_execute_skipProbe(w, stmt, insert, f) ==
    ExecuteChecked(IF w.status = "True" THEN Done(w) ELSE checkConnection(w, f), stmt, insert, f)

\* MySQLTable._execute(statement, insert)
_execute(w, stmt, insert, f) == ExecuteChecked(checkConnection(w, f), stmt, insert, f)

\* _check_result accepting any count of at least one
_check_result_atLeastOne(cur) == cur.rowcount >= 1

\* MySQLTable._check_result: TRUE when it returns, FALSE when it raises
_check_result(cur) == cur.rowcount = 1

\* MySQLTable.create
create(t, seed) == NewRecord(t, seed, None)

\* MySQLTable._mapColumnsToKeys
RECURSIVE _mapColumnsToKeys(_, _, _, _)
_mapColumnsToKeys(fields, row, count, res) ==
    IF count > Len(row) THEN res
    ELSE _mapColumnsToKeys(fields, row, count + 1, Put(res, fields[count], row[count]))

\* line 392: recObj = MySQLRecord(self, rowDict, rowDict[self.__PKEY])
RecordOfRow(t, rowDict) == NewRecord(t, rowDict, rowDict[PKeyName(t)])

\* MySQLTable._mapResultToRecordSet
RECURSIVE _mapResultToRecordSet(_, _, _)
_mapResultToRecordSet(t, fields, resultSet) ==
    IF resultSet = <<>> THEN <<>>
    ELSE <<RecordOfRow(t, _mapColumnsToKeys(fields, Head(resultSet), 1, EmptyDict))>>
         \o _mapResultToRecordSet(t, fields, Tail(resultSet))

\* lines 462-464, x being what _execute did
SelectResult(t, fields, x) ==
    IF ~x.ok THEN [ok |-> FALSE, err |-> x.err, w |-> x.w, val |-> <<>>]
    ELSE [ok |-> TRUE, err |-> "", w |-> x.w,
          val |-> _mapResultToRecordSet(t, fields, x.cur.rows)]

\* MySQLTable.select(where=...), every other argument at its default; the
\* empty sequence of conditions stands for where=None (no WHERE fragment).
select(t, w, where, f) ==
    SelectResult(t, t.FIELDS, _execute(w, Statement("SELECT", t.FIELDS, EmptyDict, where), FALSE, f))

\* Arguments of the fragment builders: a Python str holding a field name, a
\* list or a tuple of such values, an int (IntV) or None.
NameV(n) == <<"name", n>>
ListV(q) == <<"list", q>>
TupleV(q) == <<"tuple", q>>

\* Python truth value of an argument
Truthy(arg) ==
    IF arg = None THEN FALSE
    ELSE IF arg[1] = "name" THEN arg[2] # ""
    ELSE IF arg[1] = "int" THEN arg[2] # 0
    ELSE arg[2] # <<>>

\* lines 343-346 of _orderString, field and direct being what lines 340-341 took
OrderFragment(t, field, direct) ==
    IF InFields(t, field) THEN Ok(<<"ORDER BY", field, direct>>)
    ELSE Raise("AttributeError")

\* _orderString naming whatever field it is given
_orderString_noValidation(t, arg) ==
    IF ~Truthy(arg) THEN Ok(<<>>)
    ELSE IF arg[1] = "list"
         THEN IF Len(arg[2]) < 2 THEN Raise("IndexError")
              ELSE Ok(<<"ORDER BY", arg[2][1], arg[2][2]>>)
    ELSE IF arg[1] = "name" THEN Ok(<<"ORDER BY", arg[2], "ASC">>)
    ELSE Raise("AttributeError")

\* MySQLTable._orderString: a list is indexed, anything else is str(data)
\* (the str of a tuple names no field) with direction 'ASC'
_orderString(t, arg) ==
    IF ~Truthy(arg) THEN Ok(<<>>)
    ELSE IF arg[1] = "list"
         THEN IF Len(arg[2]) < 2 THEN Raise("IndexError")
              ELSE OrderFragment(t, arg[2][1], arg[2][2])
    ELSE IF arg[1] = "name" THEN OrderFragment(t, arg[2], "ASC")
    ELSE Raise("AttributeError")

\* MySQLTable._groupString: only a str can be an element of __FIELDS
_groupString(t, arg) ==
    IF ~Truthy(arg) THEN Ok(<<>>)
    ELSE IF arg[1] = "name" /\ InFields(t, arg[2]) THEN Ok(<<"GROUP BY", arg[2]>>)
    ELSE Raise("AttributeError")

\* MySQLTable._limitString: type(data) is a type object and never equals the
\* str 'list', so line 362 never returns; '%d' % data needs a number and
\* raises TypeError for a list, a str or a two-element tuple.
_limitString(t, arg) ==
    IF arg = None THEN Ok(<<>>)
    ELSE IF arg[1] = "int" THEN Ok(<<"LIMIT", arg[2]>>)
    ELSE Raise("TypeError")

\* lines 462-464, limit being what _limitString did
SelectLimited(t, w, limit, f) ==
    IF ~limit.ok THEN [ok |-> FALSE, err |-> limit.err, w |-> w, val |-> <<>>]
    ELSE SelectResult(t, t.FIELDS,
                      _execute(w, [Statement("SELECT", t.FIELDS, EmptyDict, <<>>)
                                     EXCEPT !.limit = limit.val], FALSE, f))

\* MySQLTable.select(limit=...), every other argument at its default
selectLimit(t, w, limit, f) == SelectLimited(t, w, _limitString(t, limit), f)

\* What a Table method hands back: kind says whether val is a record
\* ("record"), nothing ("none"), True ("true") or no return at all ("raise").
Returned(w, kind, val) == [ok |-> TRUE, err |-> "", w |-> w, kind |-> kind, val |-> val]
Raised(w, e) == [ok |-> FALSE, err |-> e, w |-> w, kind |-> "raise", val |-> NoRec]

\* get returning the first row whenever there is one
GetResult_firstOfMany(t, res, createIfNone, failIfNone) ==
    IF ~res.ok THEN Raised(res.w, res.err)
    ELSE IF Len(res.val) >= 1 THEN Returned(res.w, "record", res.val[1])
    ELSE IF createIfNone THEN Returned(res.w, "record", create(t, EmptyDict))
    ELSE IF failIfNone THEN Raised(res.w, "MySQLException")
    ELSE Returned(res.w, "none", NoRec)

\* lines 429-438, res being what select did
GetResult(t, res, createIfNone, failIfNone) ==
    IF ~res.ok THEN Raised(res.w, res.err)
    ELSE IF Len(res.val) = 1 THEN Returned(res.w, "record", res.val[1])
    ELSE IF createIfNone THEN Returned(res.w, "record", create(t, EmptyDict))
    ELSE IF failIfNone THEN Raised(res.w, "MySQLException")
    ELSE Returned(res.w, "none", NoRec)

\* line 427, g being what tr.getField did
GetSelect(t, w, key, g, createIfNone, failIfNone, f) ==
    IF ~g.ok THEN Raised(w, g.err)
    ELSE GetResult(t, select(t, w, << <<key, g.val>> >>, f), createIfNone, failIfNone)

\* lines 424-425: tr = self.create(); pkey = tr.getField(key, MYSQL, value=pkey)
GetKeyed(t, w, pkey, key, createIfNone, failIfNone, f) ==
    GetSelect(t, w, key, getField(t, create(t, EmptyDict), key, MYSQL, pkey),
              createIfNone, failIfNone, f)

\* MySQLTable.get(pkey, key, createIfNone, failIfNone); "" stands for key=None
get(t, w, pkey, key0, createIfNone, failIfNone, f) ==
    GetKeyed(t, w, pkey, IF key0 = "" THEN PKeyName(t) ELSE key0, createIfNone, failIfNone, f)

\* line 502, x being what _execute did
UpdateResult(x) == IF ~x.ok THEN Raised(x.w, x.err) ELSE Returned(x.w, "true", NoRec)

\* MySQLTable.update(values, conditions)
update(t, w, values, conditions, f) ==
    UpdateResult(_execute(w, Statement("UPDATE", <<>>, values, conditions), FALSE, f))

\* line 445, values and kf being what changes and getField did
TableSaveUpdate(t, w, values, kf, f) ==
    IF ~values.ok THEN Raised(w, values.err)
    ELSE IF ~kf.ok THEN Raised(w, kf.err)
    ELSE update(t, w, values.val, << <<PKeyName(t), kf.val>> >>, f)

\* MySQLTable.save(record)
TableSave(t, w, record, f) ==
    TableSaveUpdate(t, w, changes(t, record, MYSQL),
                    getField(t, record, PKeyName(t), MYSQL, None), f)

\* line 488, s being what record.setField did
InsertReselect(t, w, s, f2) ==
    IF ~s.ok THEN [res |-> Raised(w, s.err), record |-> s.rec]
    ELSE [res |-> get(t, w, getField(t, s.rec, PKeyName(t), INTERNAL, None).val,
                      "", FALSE, TRUE, f2),
          record |-> s.rec]

\* lines 484-487, x being what _execute did
InsertExecuted(t, record, x, f2) ==
    IF ~x.ok THEN [res |-> Raised(x.w, x.err), record |-> record]
    ELSE IF ~_check_result(x.cur)
    THEN [res |-> Raised(x.w, "MySQLException"), record |-> record]
    ELSE InsertReselect(t, x.w, setField(t, record, PKeyName(t), x.w.INDEX), f2)

\* lines 476-483, d being what record.data did
InsertData(t, w, record, d, f1, f2) ==
    IF ~d.ok THEN [res |-> Raised(w, d.err), record |-> record]
    ELSE InsertExecuted(t, record,
                        _execute(w, Statement("INSERT", t.FIELDS, d.val, <<>>), TRUE, f1), f2)

\* MySQLTable.insert(record): the result and the record as the call leaves it.
\* f1 is what the driver does to the INSERT, f2 to the re-select of get.
insert(t, w, record, f1, f2) == InsertData(t, w, record, data(t, record, MYSQL), f1, f2)

\* line 256: the update path leaves the record as it is
RecordUpdated(record, res) == [res |-> res, record |-> record]

\* save dispatching on the key field's value instead of the identity
RecordSave_byKeyField(t, w, record, f1, f2) ==
    IF record.DATA[PKeyName(t)] = None
    THEN insert(t, w, record, f1, f2)
    ELSE RecordUpdated(record, TableSave(t, w, record, f1))

\* MySQLRecord.save
RecordSave(t, w, record, f1, f2) ==
    IF record.INDEX = None
    THEN insert(t, w, record, f1, f2)
    ELSE RecordUpdated(record, TableSave(t, w, record, f1))

\* ------------------------------------------------------------------- state
VARIABLES
    conn,     \* MySQLDatabase.__conn: "none" or "up"
    status,   \* MySQLDatabase.__status: "0", "True" or "False"
    table,    \* the MySQLTable: __PKEY, __FIELDS, __META (NoTable before db.table())
    tINDEX,   \* MySQLTable.__INDEX, the lastrowid of the last INSERT
    rec,      \* the MySQLRecord the caller holds (NoRec: none yet)
    rset,     \* the MySQLRecordSet the caller holds
    rows,     \* the rows stored in the server's table
    nextId,   \* the server's AUTO_INCREMENT counter
    described, \* the rows the server answers DESCRIBE with
    ret,      \* what the last call returned or raised
    log       \* the driver calls the last call made, in order

vars == <<conn, status, table, tINDEX, rec, rset, rows, nextId, described, ret, log>>

\* The part of the state a Database/Table method works on; the log starts
\* empty at every call.
World == [conn |-> conn, status |-> status, rows |-> rows, nextId |-> nextId,
          described |-> described,
          INDEX |-> tINDEX, log |-> <<>>]

Commit(w) ==
    /\ conn' = w.conn
    /\ status' = w.status
    /\ rows' = w.rows
    /\ nextId' = w.nextId
    /\ described' = w.described
    /\ tINDEX' = w.INDEX
    /\ log' = w.log

\* ret: op names the call, kind what came back ("raise", "none", "true",
\* "false", "record", "recordset", "value", "dict"), val the record returned
\* (NoRec if none), set the RecordSet returned, out the arguments of the call
\* where a property needs them.
Ret(op, ok, err, kind, val, set, out) ==
    [op |-> op, ok |-> ok, err |-> err, kind |-> kind, val |-> val, set |-> set, out |-> out]

\* ------------------------------------------------------------------ inputs
Names == {<<"a">>, <<"b", "'">>}
KeyVals == {None} \cup {IntV(n) : n \in 1..MaxKey}
NameVals == {StrV(n) : n \in Names}

\* the values a caller writes to a name
FieldVals(name) == IF name = "Name" THEN NameVals ELSE KeyVals

\* "Bogus" is a name the table does not declare
FieldNames == {"Id", "Name", "PRIMARY", "Bogus"}

Seeds ==
    {EmptyDict}
    \cup {[k \in {"Name"} |-> v] : v \in NameVals}
    \cup {[k \in {"Id"} |-> v] : v \in KeyVals}
    \cup {[k \in {"Name", "Bogus"} |-> StrV(<<"b", "'">>)]}

\* The driver answers every call; only the row count of an INSERT varies.
NoFault == [conn0 |-> "ok", probe |-> "ok", reconn |-> "ok", stmt |-> "ok", rc |-> 1]
CountFaults == {[NoFault EXCEPT !.rc = n] : n \in 0..2}

Init ==
    /\ conn = "none"
    /\ status = "0"
    /\ table = NoTable
    /\ tINDEX = None
    /\ rec = NoRec
    /\ rset = <<>>
    /\ rows = {}
    /\ nextId = 1
    /\ described = DescribeRows
    /\ ret = Ret("init", TRUE, "", "none", NoRec, <<>>, None)
    /\ log = <<>>

\* ----------------------------------------------------------------- actions
\* db.table(name)
OpenTableDone(r) ==
    /\ Commit(r.w)
    /\ table' = r.t
    /\ ret' = Ret("table", r.ok, r.err, IF r.ok THEN "none" ELSE "raise", NoRec, <<>>, None)

OpenTable(F) ==
    /\ table = NoTable
    /\ \E f \in F : OpenTableDone(DatabaseTable(World, f))
    /\ UNCHANGED <<rec, rset>>

\* record = table.create(seed)
Create(S) ==
    /\ table # NoTable
    /\ \E seed \in S :
         /\ rec' = create(table, seed)
         /\ ret' = Ret("create", TRUE, "", "record", rec', <<>>, seed)
    /\ log' = <<>>
    /\ UNCHANGED <<conn, status, table, tINDEX, rset, rows, nextId, described>>

\* record.setField(name, value)
SetFieldDone(s, name) ==
    /\ rec' = s.rec
    /\ ret' = Ret("setField", s.ok, s.err, IF s.ok THEN "value" ELSE "raise", NoRec, <<>>, name)

SetField(N) ==
    /\ rec # NoRec
    /\ \E name \in N : \E v \in FieldVals(name) :
         SetFieldDone(setField(table, rec, name, v), name)
    /\ log' = <<>>
    /\ UNCHANGED <<conn, status, table, tINDEX, rset, rows, nextId, described>>

\* record.<name> = value
SetAttrDone(s, name) ==
    /\ rec' = s.rec
    /\ ret' = Ret("setattr", s.ok, s.err, IF s.ok THEN "none" ELSE "raise", NoRec, <<>>, name)

SetAttr(N) ==
    /\ rec # NoRec
    /\ \E name \in N : \E v \in FieldVals(name) :
         SetAttrDone(setAttr(table, rec, name, v), name)
    /\ log' = <<>>
    /\ UNCHANGED <<conn, status, table, tINDEX, rset, rows, nextId, described>>

\* what a call that hands back a value or a dict leaves in ret
Answered(op, g, kind) ==
    ret' = Ret(op, g.ok, g.err, IF g.ok THEN kind ELSE "raise", NoRec, <<>>, None)

GetFieldDone(g, name) ==
    ret' = Ret("getField", g.ok, g.err, IF g.ok THEN "value" ELSE "raise", NoRec, <<>>, name)

\* record.getField(name, datarep)
GetField ==
    /\ rec # NoRec
    /\ \E name \in FieldNames : \E rep \in Representations :
         GetFieldDone(getField(table, rec, name, rep, None), name)
    /\ log' = <<>>
    /\ UNCHANGED <<conn, status, table, tINDEX, rec, rset, rows, nextId, described>>

\* record.changes(datarep)
Changes ==
    /\ rec # NoRec
    /\ \E rep \in Representations :
         Answered("changes", changes(table, rec, rep), "dict")
    /\ log' = <<>>
    /\ UNCHANGED <<conn, status, table, tINDEX, rec, rset, rows, nextId, described>>

\* record.data(datarep)
Data ==
    /\ rec # NoRec
    /\ \E rep \in Representations :
         Answered("data", data(table, rec, rep), "dict")
    /\ log' = <<>>
    /\ UNCHANGED <<conn, status, table, tINDEX, rec, rset, rows, nextId, described>>

\* record.isModified()
IsModified ==
    /\ rec # NoRec
    /\ ret' = Ret("isModified", TRUE, "", IF isModified(table, rec) THEN "true" ELSE "false",
                  NoRec, <<>>, None)
    /\ log' = <<>>
    /\ UNCHANGED <<conn, status, table, tINDEX, rec, rset, rows, nextId, described>>

\* An INSERT of this record would store a key within the bound.
KeyOfData(d) ==
    d.ok => InsertKey(World, Statement("INSERT", table.FIELDS, d.val, <<>>))[2] <= MaxKey

KeyInBound(record) == KeyOfData(data(table, record, MYSQL))

\* what save and insert leave: the server, the caller's record, the result
Saved(op, r) ==
    /\ Commit(r.res.w)
    /\ rec' = r.record
    /\ ret' = Ret(op, r.res.ok, r.res.err, r.res.kind, r.res.val, <<>>, None)

\* record.save()
Save(F1, F2) ==
    /\ rec # NoRec
    /\ rec.INDEX = None => KeyInBound(rec)
    /\ \E f1 \in F1 : \E f2 \in F2 :
         Saved("save", RecordSave(table, World, rec, f1, f2))
    /\ UNCHANGED <<table, rset>>

\* table.insert(record)
Insert(F1, F2) ==
    /\ rec # NoRec
    /\ KeyInBound(rec)
    /\ \E f1 \in F1 : \E f2 \in F2 :
         Saved("insert", insert(table, World, rec, f1, f2))
    /\ UNCHANGED <<table, rset>>

\* table.save(record)
TableSaveDone(r) ==
    /\ Commit(r.w)
    /\ ret' = Ret("tsave", r.ok, r.err, r.kind, NoRec, <<>>, None)

TableSaveRecord(F) ==
    /\ rec # NoRec
    /\ \E f \in F : TableSaveDone(TableSave(table, World, rec, f))
    /\ UNCHANGED <<table, rec, rset>>

\* r = table.get(pkey, key, createIfNone, failIfNone); the caller may go on
\* with the record it got.
GetDone(r, keep, args) ==
    /\ Commit(r.w)
    /\ rec' = IF keep /\ r.kind = "record" THEN r.val ELSE rec
    /\ ret' = Ret("get", r.ok, r.err, r.kind, r.val, <<>>, args)

Get(F, K) ==
    /\ table # NoTable
    /\ \E key \in K : \E pkey \in FieldVals(key) :
       \E createIfNone, failIfNone, keep \in BOOLEAN : \E f \in F :
         GetDone(get(table, World, pkey, key, createIfNone, failIfNone, f), keep,
                 [key |-> key, pkey |-> pkey,
                  createIfNone |-> createIfNone, failIfNone |-> failIfNone])
    /\ UNCHANGED <<table, rset>>

\* rs = table.select(where=...); the caller may go on with one of the records.
SelectDone(r, pick) ==
    /\ Commit(r.w)
    /\ rec' = IF r.ok /\ pick \in 1..Len(r.val) THEN r.val[pick] ELSE rec
    /\ ret' = Ret("select", r.ok, r.err, IF r.ok THEN "recordset" ELSE "raise", NoRec, r.val, None)

Select(F) ==
    /\ table # NoTable
    /\ \E f \in F : \E pick \in 0..MaxKey : SelectDone(select(table, World, <<>>, f), pick)
    /\ UNCHANGED <<table, rset>>

\* what a fragment builder leaves in ret: its argument and its fragment
Built(op, arg, g) ==
    ret' = Ret(op, g.ok, g.err, IF g.ok THEN "value" ELSE "raise", NoRec, <<>>,
               [arg |-> arg, frag |-> g.val])

\* the arguments given for order and group
OrderArgs ==
    {None, ListV(<<>>)}
    \cup {NameV(n) : n \in FieldNames \cup {""}}
    \cup {ListV(<<n>>) : n \in {"Id"}}
    \cup {ListV(<<n, d>>) : n \in {"Id", "Name", "Bogus", ""}, d \in {"ASC", "DESC"}}
    \cup {TupleV(<<n, d>>) : n \in {"Id"}, d \in {"DESC"}}

\* the arguments given for limit
LimitArgs ==
    {None}
    \cup {IntV(n) : n \in 0..MaxKey}
    \cup {ListV(<<o, c>>) : o \in 0..1, c \in 1..MaxKey}
    \cup {TupleV(<<o, c>>) : o \in 0..1, c \in 1..MaxKey}

\* table._orderString(data)
OrderString ==
    /\ table # NoTable
    /\ \E arg \in OrderArgs : Built("_orderString", arg, _orderString(table, arg))
    /\ log' = <<>>
    /\ UNCHANGED <<conn, status, table, tINDEX, rec, rset, rows, nextId, described>>

\* table._groupString(data)
GroupString ==
    /\ table # NoTable
    /\ \E arg \in OrderArgs : Built("_groupString", arg, _groupString(table, arg))
    /\ log' = <<>>
    /\ UNCHANGED <<conn, status, table, tINDEX, rec, rset, rows, nextId, described>>

\* table._limitString(data)
LimitString ==
    /\ table # NoTable
    /\ \E arg \in LimitArgs : Built("_limitString", arg, _limitString(table, arg))
    /\ log' = <<>>
    /\ UNCHANGED <<conn, status, table, tINDEX, rec, rset, rows, nextId, described>>

SelectLimitDone(r, arg) ==
    /\ Commit(r.w)
    /\ ret' = Ret("selectLimit", r.ok, r.err, IF r.ok THEN "recordset" ELSE "raise", NoRec,
                  r.val, [arg |-> arg, frag |-> <<>>])

\* rs = table.select(limit=data)
SelectLimit(F) ==
    /\ table # NoTable
    /\ \E f \in F : \E arg \in LimitArgs :
         SelectLimitDone(selectLimit(table, World, arg, f), arg)
    /\ UNCHANGED <<table, rec, rset>>

SelectSetDone(r) ==
    /\ Commit(r.w)
    /\ rset' = IF r.ok THEN r.val ELSE rset
    /\ ret' = Ret("select", r.ok, r.err, IF r.ok THEN "recordset" ELSE "raise", NoRec, r.val, None)

\* rs = table.select(), the caller keeping the RecordSet
SelectSet(F) ==
    /\ table # NoTable
    /\ \E f \in F : SelectSetDone(select(table, World, <<>>, f))
    /\ UNCHANGED <<table, rec>>

\* values that are not records
Others == {Other(None), Other(IntV(1))}

\* what a list operation leaves: the RecordSet and the result
ListDone(op, r) ==
    /\ rset' = r.set
    /\ ret' = Ret(op, r.ok, r.err, IF r.ok THEN "none" ELSE "raise", NoRec, <<>>, None)
    /\ log' = <<>>
    /\ UNCHANGED <<conn, status, table, tINDEX, rec, rows, nextId, described>>

\* rs[key] = value
SetItem ==
    /\ \E key \in 1..MaxItems :
         \/ rec # NoRec /\ ListDone("setitem", setitem(rset, key, rec))
         \/ \E v \in Others : ListDone("setitem", setitem(rset, key, v))

\* rs.append(value)
AppendItem ==
    /\ Len(rset) < MaxItems
    /\ \/ rec # NoRec /\ ListDone("append", append(rset, rec))
       \/ \E v \in Others : ListDone("append", append(rset, v))

\* rs.insert(index, value)
InsertItem ==
    /\ Len(rset) < MaxItems
    /\ \E index \in 0..Len(rset) :
         \/ rec # NoRec /\ ListDone("insert", listInsert(rset, index, rec))
         \/ \E v \in Others : ListDone("insert", listInsert(rset, index, v))

\* rs.extend([value, ...])
ExtendItems ==
    /\ Len(rset) < MaxItems
    /\ \/ rec # NoRec /\ ListDone("extend", extend(rset, <<rec>>))
       \/ \E v \in Others : ListDone("extend", extend(rset, <<v>>))

\* Records, rows and keys in full, with a driver that answers every call.
Next ==
    \/ OpenTable({NoFault})
    \/ Create(Seeds)
    \/ SetField(FieldNames)
    \/ SetAttr(FieldNames)
    \/ GetField
    \/ Changes
    \/ Data
    \/ IsModified
    \/ Save(CountFaults, {NoFault})
    \/ Insert(CountFaults, {NoFault})
    \/ TableSaveRecord({NoFault})
    \/ Select({NoFault})

Spec == Init /\ [][Next]_vars

\* Table.get with every combination of its arguments, over tables filled by
\* inserts of created records.
NextGet ==
    \/ OpenTable({NoFault})
    \/ Create(Seeds)
    \/ Insert({NoFault}, {NoFault})
    \/ Get({NoFault}, {"", "Id", "Name", "Bogus"})

SpecGet == Init /\ [][NextGet]_vars

\* Every call against a driver that may fail at each connect, probe and
\* statement, over records made by create and loaded by select.
NextConn ==
    \/ OpenTable(Faults)
    \/ Create({EmptyDict})
    \/ SetField({"Name"})
    \/ Save(Faults, Faults)
    \/ Select(Faults)

SpecConn == Init /\ [][NextConn]_vars

\* The tables the server may describe: one to three of these columns, in any
\* order, any of them marked 'PRI' (several for a composite primary key).
ColumnNames == {"Id", "Name", "Code"}

Column(name, key) ==
    <<name,
      IF name = "Name" THEN "varchar" ELSE "int",
      IF key = "PRI" THEN "NO" ELSE "YES",
      key,
      IF name = "Name" THEN StrV(<<"a">>) ELSE None,
      IF name = "Id" /\ key = "PRI" THEN "auto_increment" ELSE "">>

Orderings(S) ==
    {q \in [1..Cardinality(S) -> S] : \A i, j \in DOMAIN q : i # j => q[i] # q[j]}

Schemas ==
    UNION {{[i \in DOMAIN q |-> Column(q[i], k[i])] :
              q \in Orderings(S), k \in [1..Cardinality(S) -> {"PRI", ""}]} :
           S \in (SUBSET ColumnNames) \ {{}}}

InitSchema ==
    /\ conn = "none"
    /\ status = "0"
    /\ table = NoTable
    /\ tINDEX = None
    /\ rec = NoRec
    /\ rset = <<>>
    /\ rows = {}
    /\ nextId = 1
    /\ described \in Schemas
    /\ ret = Ret("init", TRUE, "", "none", NoRec, <<>>, None)
    /\ log = <<>>

\* Introspection of every such table, and records of the table it yields.
NextSchema ==
    \/ OpenTable({NoFault})
    \/ Create({EmptyDict})
    \/ GetField

SpecSchema == InitSchema /\ [][NextSchema]_vars

\* The fragment builders on every argument shape, and select with a limit
\* over tables filled by inserts.
NextFragments ==
    \/ OpenTable({NoFault})
    \/ Create(Seeds)
    \/ Insert({NoFault}, {NoFault})
    \/ OrderString
    \/ GroupString
    \/ LimitString
    \/ SelectLimit({NoFault})

SpecFragments == Init /\ [][NextFragments]_vars

\* RecordSets a select returned, then changed by hand with records the caller
\* holds and with values that are not records.
NextRecordSet ==
    \/ OpenTable({NoFault})
    \/ Create({EmptyDict})
    \/ Insert({NoFault}, {NoFault})
    \/ SelectSet({NoFault})
    \/ SetItem
    \/ AppendItem
    \/ InsertItem
    \/ ExtendItems

SpecRecordSet == Init /\ [][NextRecordSet]_vars

\* -------------------------------------------------------------- properties
Fields == SeqToSet(table.FIELDS)

\* the fields whose current value differs from the baseline
Dirty(r) == {f \in Fields : r.DATA[f] # r.ODATA[f]}

\* changes() is empty in every representation and isModified() is false
Unmodified(r) ==
    /\ ~isModified(table, r)
    /\ \A rep \in Representations : changes(table, r, rep) = Ok(EmptyDict)

\* r holds exactly the stored row with key r.INDEX
IsRow(r, stored) ==
    \E row \in stored : r.INDEX = row["Id"] /\ \A f \in Fields : r.DATA[f] = row[f]

ExecIdx(l) == {i \in DOMAIN l : l[i].ev = "exec"}
ExecKinds(l) == {l[i].stmt.kind : i \in ExecIdx(l)}

\* C1: after a successful save() of the record, by INSERT or by UPDATE, its
\* baseline equals its current values: changes() is empty in every
\* representation and isModified() is false.
C1_SaveResyncsBaseline ==
    (ret.op = "save" /\ ret.ok) => Unmodified(rec)

\* C2: after a successful save() that took the insert path, the record's
\* identity is set, so a second save() of it would take the update path.
C2_InsertSetsIdentity ==
    (ret.op = "save" /\ ret.ok /\ "INSERT" \in ExecKinds(log)) => rec.INDEX # None

\* C3: a record just made by Table.create (any seed, undeclared keys
\* included) is unmodified with identity absent and holds the defaults
\* overlaid by the seed's declared keys; every record just mapped from a
\* selected row is unmodified and its identity is that row's primary key.
C3_ConstructedUnmodified ==
    /\ ret.op = "create" =>
         /\ ret.val = rec
         /\ Unmodified(rec)
         /\ rec.INDEX = None
         /\ \A f \in Fields :
              rec.DATA[f] = IF f \in DOMAIN ret.out THEN ret.out[f] ELSE table.META[f].Default
    /\ (ret.op = "select" /\ ret.ok) =>
         /\ Len(ret.set) = Cardinality(rows)
         /\ \A i \in DOMAIN ret.set : Unmodified(ret.set[i]) /\ IsRow(ret.set[i], rows)

\* C3 witness: a record was created from a seed that names an undeclared key
\* and overrides a default.
C3_Witness ==
    /\ ret.op = "create"
    /\ "Bogus" \in DOMAIN ret.out
    /\ rec.DATA["Name"] # table.META["Name"].Default

\* C4: in every state of a record, the keys of changes(rep) are exactly the
\* fields whose current value differs from the baseline, in every
\* representation, and isModified() is true iff there is such a field.
C4_ChangesAreDirtyFields ==
    rec # NoRec =>
        /\ \A rep \in Representations :
             LET c == changes(table, rec, rep) IN c.ok => DOMAIN c.val = Dirty(rec)
        /\ isModified(table, rec) <=> Dirty(rec) # {}

\* C4 witness: after writes, only Name is reported changed although the
\* record came from a stored row (its key field equals its baseline).
C4_Witness ==
    /\ ret.op = "setField"
    /\ ret.ok
    /\ rec.INDEX # None
    /\ changes(table, rec, MYSQL).ok
    /\ DOMAIN changes(table, rec, MYSQL).val = {"Name"}

\* the "exec" event of a call that sent exactly one statement
TheExec(l) == l[CHOOSE i \in DOMAIN l : l[i].ev = "exec"]

\* C5: when the SELECT of Table.get yields exactly one row, get returns the
\* record of that row; when it yields none, or more than one, get returns a
\* fresh record with identity absent if createIfNone (sending no other
\* statement), else raises if failIfNone, else returns None.
C5_GetOutcome ==
    (ret.op = "get" /\ ExecIdx(log) # {} /\ TheExec(log).res = "ok") =>
        LET e == TheExec(log)
            hit == {r \in rows : Matches(r, e.stmt.where)}
        IN /\ ExecKinds(log) = {"SELECT"}
           /\ Cardinality(ExecIdx(log)) = 1
           /\ e.cur.rowcount = Cardinality(hit)
           /\ e.cur.rowcount = 1 =>
                ret.ok /\ ret.kind = "record" /\ IsRow(ret.val, hit)
           /\ (e.cur.rowcount # 1 /\ ret.out.createIfNone) =>
                /\ ret.ok /\ ret.kind = "record"
                /\ ret.val.INDEX = None
                /\ ret.val = create(table, EmptyDict)
           /\ (e.cur.rowcount # 1 /\ ~ret.out.createIfNone /\ ret.out.failIfNone) =>
                ~ret.ok /\ ret.err = "MySQLException"
           /\ (e.cur.rowcount # 1 /\ ~ret.out.createIfNone /\ ~ret.out.failIfNone) =>
                ret.ok /\ ret.kind = "none"

\* C5 witness: a get whose SELECT found two rows handed back a fresh record.
C5_Witness ==
    /\ ret.op = "get"
    /\ ExecIdx(log) # {}
    /\ TheExec(log).cur.rowcount = 2
    /\ ret.out.createIfNone
    /\ ret.ok
    /\ ret.val.INDEX = None

\* C6: when the probe before a statement fails with 'server gone away', the
\* connection is torn down and connect() is called once; if it returns, the
\* statement is sent once on the new connection and nothing of that call
\* follows it: its success surfaces no driver error, its failure is the
\* error the caller gets, with no further reconnect or retry.
C6_ReconnectOnceThenExecuteOnce ==
    \A i \in DOMAIN log : (log[i].ev = "probe" /\ log[i].res = "gone") =>
        /\ Len(log) >= i + 2
        /\ log[i + 1].ev = "teardown"
        /\ log[i + 2].ev = "connect"
        /\ log[i + 2].res = "ok" =>
             /\ Len(log) >= i + 4
             /\ log[i + 3].ev = "cursor"
             /\ log[i + 4].ev = "exec"
             /\ Len(log) > i + 4 => (log[i + 4].res = "ok" /\ log[i + 5].ev = "check")
             /\ log[i + 4].res # "ok" => (~ret.ok /\ ret.err = log[i + 4].res)
             /\ (log[i + 4].res = "ok" /\ Len(log) = i + 4) =>
                  /\ conn = "up"
                  /\ ret.err \in {"", "MySQLException"}
                  /\ ret.op \in {"select", "table"} => ret.ok

\* C6 witness: a select whose probe found the server gone returned its
\* RecordSet after the reconnect.
C6_Witness ==
    /\ ret.op = "select"
    /\ ret.ok
    /\ Len(ret.set) >= 1
    /\ \E i \in DOMAIN log : log[i].ev = "probe" /\ log[i].res = "gone"

\* C7 as the claim states it: the first 'server gone away' failure of the
\* SELECT statement of Table.select is followed by a reconnect and by a
\* second attempt of the statement.
C7_SelectFailureIsRetried ==
    ret.op = "select" =>
        \A i \in ExecIdx(log) : log[i].res = "ServerGone" =>
            \/ \E j \in ExecIdx(log) : j < i
            \/ /\ \E j \in DOMAIN log : j > i /\ log[j].ev = "connect"
               /\ \E j \in ExecIdx(log) : j > i

\* C7 amended: Table.select sends its SELECT at most once and makes no driver
\* call after it; a 'server gone away' failure of the SELECT itself reaches
\* the caller as that error; only a 'server gone away' failure of the probe
\* before it causes a reconnect, exactly one, after which (the reconnect
\* having returned) the SELECT is sent once and, if it succeeds, select
\* returns the RecordSet of the stored rows.
C7_OnlyProbeFailureIsRecovered ==
    ret.op = "select" =>
        /\ Cardinality(ExecIdx(log)) <= 1
        /\ \A i \in ExecIdx(log) :
             /\ i = Len(log)
             /\ log[i].res = "ServerGone" => (~ret.ok /\ ret.err = "ServerGone")
        /\ Cardinality({i \in DOMAIN log : log[i].ev = "teardown"}) <= 1
        /\ \A i \in DOMAIN log : log[i].ev = "teardown" =>
             (i > 1 /\ log[i - 1].ev = "probe" /\ log[i - 1].res = "gone")
        /\ \A i \in DOMAIN log : (log[i].ev = "probe" /\ log[i].res = "gone") =>
             /\ Cardinality({j \in DOMAIN log : j > i /\ log[j].ev = "connect"}) = 1
             /\ (\E j \in DOMAIN log : j > i /\ log[j].ev = "connect" /\ log[j].res = "ok") =>
                  Cardinality(ExecIdx(log)) = 1
             /\ (\E j \in ExecIdx(log) : log[j].res = "ok") =>
                  /\ ret.ok
                  /\ Len(ret.set) = Cardinality(rows)
                  /\ \A k \in DOMAIN ret.set : IsRow(ret.set[k], rows)

\* C7 witness: the probe failed, the reconnect succeeded and the SELECT then
\* failed with 'server gone away': the caller got the error.
C7_Witness ==
    /\ ret.op = "select"
    /\ ~ret.ok
    /\ \E i \in DOMAIN log : log[i].ev = "probe" /\ log[i].res = "gone"
    /\ \E i \in ExecIdx(log) : log[i].res = "ServerGone"

\* C8: every statement sent to the driver (DESCRIBE, SELECT, INSERT, UPDATE)
\* comes right after its cursor was acquired, and before that cursor, within
\* the same call and after any earlier statement, checkConnection was
\* entered and its probe was sent.
C8_ProbeBeforeEveryStatement ==
    \A i \in ExecIdx(log) :
        /\ i >= 2
        /\ log[i - 1].ev = "cursor"
        /\ \E j \in 1..(i - 2) :
             /\ log[j].ev = "check"
             /\ \A k \in j..(i - 1) : log[k].ev # "exec"
             /\ \E p \in j..(i - 2) : log[p].ev = "probe"

\* C8 witness: one save() sent an INSERT and then the SELECT of the re-select.
C8_Witness ==
    /\ ret.op = "save"
    /\ {"INSERT", "SELECT"} \subseteq ExecKinds(log)

\* the first statement a call sent
FirstExec(l) == l[CHOOSE i \in ExecIdx(l) : \A j \in ExecIdx(l) : i <= j]

\* C9: a Table.insert whose INSERT reports a row count other than one raises
\* and leaves the record (key field, other fields, baseline, identity) as it
\* was, sending no SELECT; with a count of one the record's key field is the
\* driver's lastrowid and, the re-select having succeeded, the record of the
\* row with that key is returned.
C9_InsertChecksRowCount ==
    [][(ret'.op = "insert" /\ ExecIdx(log') # {} /\ FirstExec(log').res = "ok") =>
          LET e == FirstExec(log') IN
          /\ e.stmt.kind = "INSERT"
          /\ e.cur.rowcount # 1 =>
               /\ ~ret'.ok
               /\ ret'.err = "MySQLException"
               /\ rec' = rec
               /\ ExecKinds(log') = {"INSERT"}
               /\ Cardinality(ExecIdx(log')) = 1
          /\ e.cur.rowcount = 1 =>
               /\ rec'.DATA[PKeyName(table)] = e.cur.lastrowid
               /\ (\E i \in ExecIdx(log') : log'[i].stmt.kind = "SELECT" /\ log'[i].res = "ok") =>
                    /\ ret'.ok
                    /\ ret'.kind = "record"
                    /\ ret'.val.INDEX = e.cur.lastrowid
                    /\ IsRow(ret'.val, rows')
      ]_vars

\* C9 witness: an insert whose INSERT reported two rows raised.
C9_Witness ==
    /\ ret.op = "insert"
    /\ ~ret.ok
    /\ ExecIdx(log) # {}
    /\ FirstExec(log).res = "ok"
    /\ FirstExec(log).cur.rowcount = 2

\* C10: the key sets of current and baseline of every record (the caller's,
\* the one a call returned, those of a returned RecordSet) are exactly the
\* table's field set.
C10_KeySetsAreSchemaFields ==
    \A r \in {rec, ret.val} \cup SeqToSet(ret.set) :
        r # NoRec => (DOMAIN r.DATA = Fields /\ DOMAIN r.ODATA = Fields)

\* C10 witness: an attribute write to an undeclared name returned normally.
C10_Witness ==
    /\ ret.op = "setattr"
    /\ ret.ok
    /\ ret.out = "Bogus"
    /\ rec # NoRec

\* the errors by which the program reports an undeclared field
FieldErrors == {"MySQLException", "AttributeException"}

\* C11: a getField, a setField or an attribute write for a name that, after
\* the 'PRIMARY' alias is resolved, is not a declared field fails with the
\* program's field error and leaves the record (current values, baseline,
\* identity) as it was; it never returns normally.
C11_UndeclaredAccessFails ==
    [][(/\ ret'.op \in {"getField", "setField", "setattr"}
        /\ Resolve(table, ret'.out) \notin Fields) =>
          /\ ~ret'.ok
          /\ ret'.err \in FieldErrors
          /\ rec' = rec
      ]_vars

\* C12: a write (setField or attribute write) of field f changes at most the
\* current value of f: the baseline of every field, the current value of
\* every other field and the identity are as before, on the first write to
\* a record as on later ones.
C12_WriteChangesOnlyCurrent ==
    [][ret'.op \in {"setField", "setattr"} =>
          /\ rec'.ODATA = rec.ODATA
          /\ rec'.INDEX = rec.INDEX
          /\ \A f \in Fields \ {Resolve(table, ret'.out)} : rec'.DATA[f] = rec.DATA[f]
      ]_vars

\* C12 witness: the first write to a record just created changed Name, which
\* now differs from its baseline.
C12_Witness ==
    /\ ret.op = "setField"
    /\ ret.ok
    /\ ret.out = "Name"
    /\ rec.INDEX = None
    /\ Dirty(rec) = {"Name"}

\* the first column, in description order, whose key role is 'PRI'
FirstPrimary(d) ==
    IF \E i \in DOMAIN d : d[i][4] = "PRI"
    THEN StrV(d[CHOOSE i \in DOMAIN d :
                  d[i][4] = "PRI" /\ \A j \in DOMAIN d : d[j][4] = "PRI" => i <= j][1])
    ELSE None

\* C13: after introspection the primary key is the first column, in
\* description order, marked 'PRI' (absent when none is), later 'PRI' columns
\* not replacing it, and it is one of the ordered field names, which are the
\* described columns in order.
C13_FirstPrimaryWins ==
    table # NoTable =>
        /\ table.PKEY = FirstPrimary(described)
        /\ table.PKEY # None => PKeyName(table) \in Fields
        /\ Len(table.FIELDS) = Len(described)
        /\ \A i \in DOMAIN described : table.FIELDS[i] = described[i][1]

\* the argument is a field name alone, or (ORDER only) a [field, direction] list
NamesField(op, arg) ==
    \/ arg[1] = "name"
    \/ op = "_orderString" /\ arg[1] = "list" /\ Len(arg[2]) = 2

GivenField(arg) == IF arg[1] = "list" THEN arg[2][1] ELSE arg[2]
GivenDirection(arg) == IF arg[1] = "list" THEN arg[2][2] ELSE "ASC"

\* the fragment that names the given field
FragmentFor(op, arg) ==
    IF op = "_orderString" THEN <<"ORDER BY", GivenField(arg), GivenDirection(arg)>>
    ELSE <<"GROUP BY", GivenField(arg)>>

\* C14 as the claim states it: ORDER BY and GROUP BY construction fails with
\* the field error for every given name, any string, that is not a declared
\* field, and yields the fragment naming the field (direction ascending
\* when none is given) when it is one.
C14_UnknownFieldFails ==
    (ret.op \in {"_orderString", "_groupString"} /\ NamesField(ret.op, ret.out.arg)) =>
        /\ GivenField(ret.out.arg) \notin Fields => (~ret.ok /\ ret.err = "AttributeError")
        /\ GivenField(ret.out.arg) \in Fields =>
             (ret.ok /\ ret.out.frag = FragmentFor(ret.op, ret.out.arg))

\* C14 amended: the same for every given name except the empty string given
\* alone, which, like no argument at all, yields the empty fragment without
\* failing; a fragment, when one is produced, names a declared field.
C14_NonEmptyUnknownFieldFails ==
    ret.op \in {"_orderString", "_groupString"} =>
        /\ (NamesField(ret.op, ret.out.arg) /\ ret.out.arg # NameV("")) =>
             /\ GivenField(ret.out.arg) \notin Fields =>
                  (~ret.ok /\ ret.err = "AttributeError")
             /\ GivenField(ret.out.arg) \in Fields =>
                  (ret.ok /\ ret.out.frag = FragmentFor(ret.op, ret.out.arg))
        /\ ret.out.arg \in {None, NameV("")} => (ret.ok /\ ret.out.frag = <<>>)
        /\ (ret.ok /\ ret.out.frag # <<>>) => ret.out.frag[2] \in Fields

\* C14 witness: _orderString was given the empty string alone and returned
\* the empty fragment.
C14_Witness ==
    /\ ret.op = "_orderString"
    /\ ret.out.arg = NameV("")
    /\ ret.ok
    /\ ret.out.frag = <<>>

\* C15: the RecordSet the caller holds contains only records, whatever list
\* operations (item assignment, append, insert, extend) were applied to it.
C15_RecordSetHoldsOnlyRecords ==
    \A i \in DOMAIN rset : isRecord(rset[i])

\* the argument is a two-element offset/count pair
IsPair(arg) == arg # None /\ arg[1] \in {"list", "tuple"} /\ Len(arg[2]) = 2

\* C16: the LIMIT builder yields the empty fragment for no limit, 'LIMIT n'
\* for a count n and 'LIMIT o, c' for a pair (o, c); a select given a pair
\* sends its statement, carrying that fragment, and does not fail.
C16_LimitAcceptsBothShapes ==
    /\ ret.op = "_limitString" =>
         /\ ret.ok
         /\ ret.out.arg = None => ret.out.frag = <<>>
         /\ (ret.out.arg # None /\ ret.out.arg[1] = "int") =>
              ret.out.frag = <<"LIMIT", ret.out.arg[2]>>
         /\ IsPair(ret.out.arg) =>
              ret.out.frag = <<"LIMIT", ret.out.arg[2][1], ret.out.arg[2][2]>>
    /\ (ret.op = "selectLimit" /\ IsPair(ret.out.arg)) =>
         /\ ret.ok
         /\ \E i \in ExecIdx(log) :
              log[i].stmt.limit = <<"LIMIT", ret.out.arg[2][1], ret.out.arg[2][2]>>

\* the statements of kind k among the driver calls of l
ExecsOf(l, k) == {i \in ExecIdx(l) : l[i].stmt.kind = k}

\* C17: Record.save() dispatches on the identity alone: it sends an INSERT
\* only when the identity is absent and an UPDATE only when it is present,
\* a save that returns has sent the one its identity calls for, the SET list
\* of the UPDATE is exactly changes(Wire) of the record as it was, and no
\* save sends both an INSERT and an UPDATE.
C17_SaveDispatchesOnIdentity ==
    [][ret'.op = "save" =>
         /\ ExecsOf(log', "INSERT") # {} => rec.INDEX = None
         /\ ExecsOf(log', "UPDATE") # {} => rec.INDEX # None
         /\ ret'.ok => (IF rec.INDEX = None
                        THEN ExecsOf(log', "INSERT") # {}
                        ELSE ExecsOf(log', "UPDATE") # {})
         /\ \A i \in ExecsOf(log', "UPDATE") :
              log'[i].stmt.vals = changes(table, rec, MYSQL).val
         /\ ~(ExecsOf(log', "INSERT") # {} /\ ExecsOf(log', "UPDATE") # {}) ]_vars

\* a save of a loaded record, its Name changed, has sent an UPDATE setting Name
C17_Witness ==
    /\ ret.op = "save" /\ ret.ok
    /\ rec.INDEX # None
    /\ ExecsOf(log, "INSERT") = {}
    /\ \E i \in ExecsOf(log, "UPDATE") : DOMAIN log[i].stmt.vals = {"Name"}

\* the driver calls whose failure checkConnection does not recover from: a
\* probe that failed with an error other than 'server gone away', and a
\* reconnect (the connect right after the teardown) that failed
Unrecovered(l) ==
    {i \in DOMAIN l :
        \/ l[i].ev = "probe" /\ l[i].res = "other"
        \/ l[i].ev = "connect" /\ l[i].res = "fail" /\ i > 1 /\ l[i - 1].ev = "teardown"}

\* C18: when the probe fails with an error other than 'server gone away', or
\* the reconnect after a 'server gone away' probe fails, the call makes no
\* driver call after it (no reconnect, no statement) and raises that very
\* error to its caller.
C18_OtherFailuresPropagate ==
    \A i \in Unrecovered(log) :
        /\ i = Len(log)
        /\ ~ret.ok
        /\ ret.err = (IF log[i].ev = "probe" THEN "DriverError" ELSE "ConnectFailed")
        /\ \A j \in ExecIdx(log) : log[j].res = "ok"

\* C18 witness: a select whose probe failed with another error raised it,
\* having sent no statement and made no connect after the probe.
C18_Witness ==
    /\ ret.op = "select"
    /\ ~ret.ok
    /\ ret.err = "DriverError"
    /\ ExecIdx(log) = {}
    /\ Len(log) >= 1
    /\ log[Len(log)].ev = "probe"
    /\ log[Len(log)].res = "other"

\* C19: a Table.save of a record loaded from the stored row with key k
\* (identity k), whatever was set on the record since, sends exactly one
\* UPDATE, whose WHERE is the single condition that the primary-key field
\* equals k.
C19_SaveAddressesLoadedRow ==
    [][(ret'.op \in {"tsave", "save"} /\ rec.INDEX # None /\ ret'.ok) =>
         /\ Cardinality(ExecsOf(log', "UPDATE")) = 1
         /\ \A i \in ExecsOf(log', "UPDATE") :
              /\ Len(log'[i].stmt.where) = 1
              /\ log'[i].stmt.where[1][1] = PKeyName(table)
              /\ SqlLiteral(log'[i].stmt.where[1][2]) = rec.INDEX ]_vars

====
